---- MODULE Spec2Model ----
(***************************************************************************)
(* Client-side presentation layer of the chat UI: the inbound-frame        *)
(* dispatcher (WebSocketHandler), the message renderer and the audio       *)
(* player controller (MessageComponent).                                   *)
(*                                                                         *)
(* Every event handler runs to completion on the single UI thread, so one  *)
(* action is one whole handler.  A handler that throws stops where it      *)
(* throws: the assignments made before the throw stay, the rest is         *)
(* skipped, and the event loop goes on with the next event.                *)
(***************************************************************************)
EXTENDS Integers, Sequences, FiniteSets, TLC

\* ---------------------------------------------------------------- bounds
MaxWidgets == 2     \* audio widgets ever created
MaxFrames == 2      \* frames the transport delivers
Dur == 2            \* duration of every clip, in seconds
MaxSends == 1       \* messages the user sends
MaxClips == 1       \* clips in a short conversation
MaxBlocks == 2      \* longest list of tool calls and of internal messages
MaxChunks == 2      \* longest clip that is decoded, in chunks
MaxSegments == 2    \* longest error text that is classified, in segments
MaxSeconds == 600   \* longest time that is formatted

\* ------------------------------------------------------------- constants
Null == 0           \* this.currentAudio = null
NaN == -1           \* audio.duration before the metadata is loaded
\* Amounts of money are counted in units of 0.0001.
LowBudgetThreshold == 50000     \* ChatConstants.LOW_BUDGET_THRESHOLD, 5.00
AudioChunkSize == 512           \* ChatConstants.AUDIO_CHUNK_SIZE

\* An optional value: None when the field is missing, Some(v) otherwise.
None == <<>>
Some(v) == <<v>>

\* Text is a sequence of characters.
ErrorPrefix == <<"E", "r", "r", "o", "r", ":">>
NeedlePrompt == <<"P", "r", "o", "m", "p", "t", " ", "m", "u", "s", "t", " ",
                  "b", "e", " ", "l", "e", "n", "g", "t", "h">>
NeedleBudget == <<"b", "u", "d", "g", "e", "t", " ", "e", "x", "c", "e", "e",
                  "d", "e", "d">>
\* ChatConstants.ERROR_TYPES
PROMPT_TOO_LONG == "Prompt Too Long"
BUDGET_EXCEEDED == "Budget Exceeded"
GENERIC == "Error"

VARIABLES
    log,            \* children of messagesContainer, oldest first
    audio,          \* audio[i]: the <audio> element of the i-th audio widget
    currentAudio,   \* MessageComponent.currentAudio: Null or a widget index
    ledger,         \* the totalCost and remainingBudget fields of the page
    delivered,      \* number of frames the transport has delivered
    outbox,         \* the texts ws.send has taken, oldest first
    readyState,     \* ws.readyState: "CONNECTING" until the socket opens
    expanded,       \* the log nodes whose agent-flow chip is not "collapsed"
    origin,         \* origin[i]: the event that created log[i] (history)
    probe,          \* the utility function applied last, its input and output
    last            \* the handler that ran last, and how it ended

vars == <<log, audio, currentAudio, ledger, delivered, outbox, readyState,
          expanded, origin, probe, last>>

Widgets == DOMAIN audio

\* ------------------------------------------------------ the <audio> element
\* A fresh element: paused, at position 0, duration unknown, never played;
\* its button shows the initial "Play" representation.
NewAudio ==
    [paused |-> TRUE, currentTime |-> 0, duration |-> NaN,
     phase |-> "idle", button |-> "play"]

\* The controller state of a widget, read off the element:
\* phase is "idle" until play() is first called, "started" after a play(),
\* "ended" once the ended event has fired since the last play().
StateOf(a) ==
    IF ~a.paused THEN "Playing"
    ELSE IF a.phase = "ended" THEN "Ended"
    ELSE IF a.phase = "started" THEN "Paused"
    ELSE "Idle"

\* HTMLMediaElement.play(): an element that stands at its end is first
\* rewound to the start; then it is no longer paused.
MediaPlay(a) ==
    [a EXCEPT !.paused = FALSE,
              !.phase = "started",
              !.currentTime = IF a.duration # NaN /\ a.currentTime = a.duration
                              THEN 0 ELSE a.currentTime]

\* HTMLMediaElement.pause()
MediaPause(a) == [a EXCEPT !.paused = TRUE]

\* The element of createAudioPlayer is handed to _createAudioControls but is
\* never appended to any node: its parentElement is null.
ParentElement(w) == Null

\* ------------------------------------------------- handler-local state
\* What a running handler reads and writes, with the steps it has made and
\* whether it has thrown.
Entry == [audio |-> audio, cur |-> currentAudio, fault |-> FALSE, steps |-> <<>>]

Step(s, what, w) == [s EXCEPT !.steps = Append(@, <<what, w>>)]

Throw(s) == [s EXCEPT !.fault = TRUE, !.steps = Append(@, <<"throw", 0>>)]

\* _resetAudioButton
ResetAudioButton(s, w) ==
    Step([s EXCEPT !.audio[w].button = "play"], "button-play", w)

\* _resetCurrentAudio: pause, rewind, then look the button up through
\* parentElement; a null parentElement makes querySelector throw.
ResetCurrentAudio(s) ==
    LET c  == s.cur
        s1 == Step([s EXCEPT !.audio[c] = MediaPause(@)], "pause", c)
        s2 == Step([s1 EXCEPT !.audio[c].currentTime = 0], "rewind", c)
    IN  IF ParentElement(c) = Null THEN Throw(s2) ELSE ResetAudioButton(s2, c)

\* faulty variant of _playAudio: the reference to the playing element is
\* not recorded
PlayAudioForgetsCurrent(s, w) ==
    LET s1 == Step([s EXCEPT !.audio[w] = MediaPlay(@)], "play", w)
    IN  Step([s1 EXCEPT !.audio[w].button = "pause"], "button-pause", w)

\* faulty variant of _playAudio: the reference is cleared
PlayAudioClearsCurrent(s, w) ==
    LET s1 == Step([s EXCEPT !.audio[w] = MediaPlay(@)], "play", w)
        s2 == Step([s1 EXCEPT !.audio[w].button = "pause"], "button-pause", w)
    IN  [s2 EXCEPT !.cur = Null]

\* _playAudio
PlayAudio(s, w) ==
    LET s1 == Step([s EXCEPT !.audio[w] = MediaPlay(@)], "play", w)
        s2 == Step([s1 EXCEPT !.audio[w].button = "pause"], "button-pause", w)
    IN  [s2 EXCEPT !.cur = w]

\* faulty variant of _pauseAudio: pauses and rewinds, as the reset of
\* another widget does
PauseAudioRewinds(s, w) ==
    LET s1 == Step([s EXCEPT !.audio[w] = MediaPause(@)], "pause", w)
        s2 == Step([s1 EXCEPT !.audio[w].currentTime = 0], "rewind", w)
    IN  ResetAudioButton(s2, w)

\* faulty variant of _pauseAudio: the reference to the playing element is
\* cleared, as the ended listener does
PauseAudioClearsCurrent(s, w) ==
    LET s1 == ResetAudioButton(Step([s EXCEPT !.audio[w] = MediaPause(@)],
                                    "pause", w), w)
    IN  [s1 EXCEPT !.cur = Null]

\* _pauseAudio
PauseAudio(s, w) ==
    ResetAudioButton(Step([s EXCEPT !.audio[w] = MediaPause(@)], "pause", w), w)

\* faulty variant of the click handler: the widget that is playing is
\* not reset
ClickPlayButtonNoReset(s, w) ==
    IF s.audio[w].paused THEN PlayAudio(s, w) ELSE PauseAudio(s, w)

\* the click handler of the play button
ClickPlayButton(s, w) ==
    LET s1 == IF s.cur # Null /\ s.cur # w THEN ResetCurrentAudio(s) ELSE s
    IN  IF s1.fault THEN s1
        ELSE IF s1.audio[w].paused THEN PlayAudio(s1, w)
        ELSE PauseAudio(s1, w)

\* faulty variant of the seek position: measured from the right edge
SeekTargetFromRight(k, duration) ==
    IF duration = NaN THEN NaN ELSE ((Dur - k) * duration) \div Dur

\* pos * audio.duration, pos = k / Dur the click's fraction of the track
SeekTarget(k, duration) ==
    IF duration = NaN THEN NaN ELSE (k * duration) \div Dur

\* the click handler of the progress track: assigning a NaN to
\* currentTime is rejected by the element with a TypeError.
ClickProgress(s, w, k) ==
    LET t == SeekTarget(k, s.audio[w].duration)
    IN  IF t = NaN THEN Throw(s)
        ELSE Step([s EXCEPT !.audio[w].currentTime = t], "seek", w)

\* faulty variant of the ended listener: currentAudio is kept
OnEndedListenerKeepsCurrent(s, w) == ResetAudioButton(s, w)

\* the ended listener
OnEndedListener(s, w) ==
    LET s1 == ResetAudioButton(s, w)
    IN  [s1 EXCEPT !.cur = Null]

\* faulty variant of the download listener: the object URL is never revoked
ClickDownloadKeepsURL(s, w, decodes) ==
    IF ~decodes THEN Throw(s)
    ELSE LET s1 == Step(s, "base64ToBlob", w)
             s2 == Step(s1, "createObjectURL", w)
             s3 == Step(s2, "appendChild", w)
             s4 == Step(s3, "click", w)
         IN  Step(s4, "removeChild", w)

\* the click handler of the download button of widget w: decode, make an
\* object URL, put an anchor in the body, click it, revoke the URL, take
\* the anchor out; a payload that atob rejects makes the first step throw
ClickDownload(s, w, decodes) ==
    IF ~decodes THEN Throw(s)
    ELSE LET s1 == Step(s, "base64ToBlob", w)
             s2 == Step(s1, "createObjectURL", w)
             s3 == Step(s2, "appendChild", w)
             s4 == Step(s3, "click", w)
             s5 == Step(s4, "revokeObjectURL", w)
         IN  Step(s5, "removeChild", w)

\* ------------------------------------------------------------ text helpers
\* String.prototype.startsWith
StartsWith(s, p) == Len(s) >= Len(p) /\ SubSeq(s, 1, Len(p)) = p

\* String.prototype.substring(n), n >= 0
Substring(s, n) == SubSeq(s, n + 1, Len(s))

\* String.prototype.includes
Includes(s, sub) ==
    \E i \in 1..(Len(s) - Len(sub) + 1) : SubSeq(s, i, i + Len(sub) - 1) = sub

IsSpace(c) == c \in {" ", "\t", "\n"}

RECURSIVE TrimStart(_)
TrimStart(s) ==
    IF s # <<>> /\ IsSpace(Head(s)) THEN TrimStart(Tail(s)) ELSE s

RECURSIVE TrimEnd(_)
TrimEnd(s) ==
    IF s # <<>> /\ IsSpace(s[Len(s)]) THEN TrimEnd(SubSeq(s, 1, Len(s) - 1)) ELSE s

\* String.prototype.trim
Trim(s) == TrimEnd(TrimStart(s))

\* the truth value of an optional text: a missing field and "" are falsy
Truthy(o) == o # None /\ o[1] # <<>>

\* the truth value of an optional number: a missing field and 0 are falsy
TruthyNumber(o) == o # None /\ o[1] # 0

\* Number.prototype.toFixed: the amount rounded to the given number of
\* decimals, kept with that number of decimals
ToFixed3(x) == [decimals |-> 3, digits |-> (x + 5) \div 10]
ToFixed2(x) == [decimals |-> 2, digits |-> (x + 50) \div 100]

\* ------------------------------------------------------------- AudioUtils
Min(a, b) == IF a < b THEN a ELSE b

DigitChars == <<"0", "1", "2", "3", "4", "5", "6", "7", "8", "9">>

\* Number.prototype.toString of a whole number n >= 0
RECURSIVE NumberToString(_)
NumberToString(n) ==
    IF n < 10 THEN <<DigitChars[n + 1]>>
    ELSE Append(NumberToString(n \div 10), DigitChars[(n % 10) + 1])

\* String.prototype.padStart with a one-character filler
PadStart(s, targetLength, c) ==
    IF Len(s) >= targetLength THEN s
    ELSE [i \in 1..(targetLength - Len(s)) |-> c] \o s

\* faulty variant of formatTime: the seconds are not padded
FormatTimeUnpadded(seconds) ==
    IF seconds = NaN THEN <<"0", ":", "0", "0">>
    ELSE NumberToString(seconds \div 60) \o <<":">> \o NumberToString(seconds % 60)

\* faulty variant of formatTime: no isNaN guard; Math.floor of a NaN is a
\* NaN, which prints as "NaN"
FormatTimeUnguarded(seconds) ==
    IF seconds = NaN THEN <<"N", "a", "N", ":", "N", "a", "N">>
    ELSE NumberToString(seconds \div 60) \o <<":">>
         \o PadStart(NumberToString(seconds % 60), 2, "0")

\* AudioUtils.formatTime
FormatTime(seconds) ==
    IF seconds = NaN THEN <<"0", ":", "0", "0">>
    ELSE LET minutes == seconds \div 60
             secs    == seconds % 60
         IN  NumberToString(minutes) \o <<":">>
             \o PadStart(NumberToString(secs), 2, "0")

\* The base64 alphabet; "=" pads the last group.
Base64Chars ==
    <<"A", "B", "C", "D", "E", "F", "G", "H", "I", "J", "K", "L", "M",
      "N", "O", "P", "Q", "R", "S", "T", "U", "V", "W", "X", "Y", "Z",
      "a", "b", "c", "d", "e", "f", "g", "h", "i", "j", "k", "l", "m",
      "n", "o", "p", "q", "r", "s", "t", "u", "v", "w", "x", "y", "z",
      "0", "1", "2", "3", "4", "5", "6", "7", "8", "9", "+", "/">>

\* the six bits a base64 character stands for; the padding stands for none
Sextet(c) ==
    IF c = "=" THEN 0 ELSE (CHOOSE i \in 1..64 : Base64Chars[i] = c) - 1

\* atob: the binary string a padded base64 text stands for, as the sequence
\* of its character codes
Atob(base64) ==
    LET n   == Len(base64)
        pad == Cardinality({i \in 1..n : base64[i] = "="})
        Group(q) == Sextet(base64[4 * q + 1]) * 262144
                    + Sextet(base64[4 * q + 2]) * 4096
                    + Sextet(base64[4 * q + 3]) * 64
                    + Sextet(base64[4 * q + 4])
    IN  [j \in 1..((n \div 4) * 3 - pad) |->
            LET q == (j - 1) \div 3
                r == (j - 1) % 3
            IN  (Group(q) \div (IF r = 0 THEN 65536 ELSE IF r = 1 THEN 256 ELSE 1))
                % 256]

\* String.prototype.slice(from, to), 0 <= from <= to
Slice(s, from, to) == SubSeq(s, from + 1, Min(to, Len(s)))

\* new Uint8Array(numbers): every element is kept modulo 2^8
Uint8Array(numbers) == [i \in DOMAIN numbers |-> numbers[i] % 256]

\* faulty variant of the loop of base64ToBlob: each slice is one character
\* short
ByteArraysShortSlice(byteCharacters) ==
    [k \in 1..((Len(byteCharacters) + AudioChunkSize - 1) \div AudioChunkSize) |->
        LET offset == (k - 1) * AudioChunkSize
        IN  Uint8Array(Slice(byteCharacters, offset, offset + AudioChunkSize - 1))]

\* faulty variant of the loop of base64ToBlob: the loop goes on while the
\* offset is at most the length
RECURSIVE ByteArraysFromInclusive(_, _, _)
ByteArraysFromInclusive(byteCharacters, offset, byteArrays) ==
    IF offset <= Len(byteCharacters)
    THEN LET slice == Slice(byteCharacters, offset, offset + AudioChunkSize)
             byteNumbers == [i \in 1..Len(slice) |-> slice[i]]
         IN  ByteArraysFromInclusive(byteCharacters, offset + AudioChunkSize,
                                     Append(byteArrays, Uint8Array(byteNumbers)))
    ELSE byteArrays

\* the loop of base64ToBlob from one offset on: while the offset is below
\* the length, the slice of at most AUDIO_CHUNK_SIZE characters that starts
\* there is turned into a Uint8Array of charCodeAt(i) and pushed, and the
\* offset moves on by AUDIO_CHUNK_SIZE
RECURSIVE ByteArraysFrom(_, _, _)
ByteArraysFrom(byteCharacters, offset, byteArrays) ==
    IF offset < Len(byteCharacters)
    THEN LET slice == Slice(byteCharacters, offset, offset + AudioChunkSize)
             byteNumbers == [i \in 1..Len(slice) |-> slice[i]]
         IN  ByteArraysFrom(byteCharacters, offset + AudioChunkSize,
                            Append(byteArrays, Uint8Array(byteNumbers)))
    ELSE byteArrays

\* the loop of base64ToBlob: it starts at offset 0 with no array
ByteArrays(byteCharacters) == ByteArraysFrom(byteCharacters, 0, <<>>)

\* new Blob(parts): the parts one after the other
RECURSIVE BlobBytes(_)
BlobBytes(parts) ==
    IF parts = <<>> THEN <<>> ELSE Head(parts) \o BlobBytes(Tail(parts))

\* AudioUtils.base64ToBlob
Base64ToBlob(base64, mimeType) ==
    LET byteCharacters == Atob(base64)
        byteArrays     == ByteArrays(byteCharacters)
    IN  [type |-> mimeType, parts |-> Len(byteArrays),
         bytes |-> BlobBytes(byteArrays)]

\* atob accepts a text of base64 characters, padded with "=" to a multiple
\* of four or not padded at all; on any other text it throws an
\* InvalidCharacterError
IsBase64(s) ==
    LET n    == Len(s)
        pad  == IF n % 4 = 0 /\ n >= 2 /\ s[n] = "="
                THEN (IF s[n - 1] = "=" THEN 2 ELSE 1) ELSE 0
        data == n - pad
    IN  /\ data % 4 # 1
        /\ \A i \in 1..data : \E j \in DOMAIN Base64Chars : Base64Chars[j] = s[i]

\* ---------------------------------------------------------- the download
\* Date.prototype.toISOString of an instant of the years 0..9999, UTC
ToISOString(t) ==
    PadStart(NumberToString(t.year), 4, "0") \o <<"-">>
    \o PadStart(NumberToString(t.month), 2, "0") \o <<"-">>
    \o PadStart(NumberToString(t.day), 2, "0") \o <<"T">>
    \o PadStart(NumberToString(t.hours), 2, "0") \o <<":">>
    \o PadStart(NumberToString(t.minutes), 2, "0") \o <<":">>
    \o PadStart(NumberToString(t.seconds), 2, "0") \o <<".">>
    \o PadStart(NumberToString(t.ms), 3, "0") \o <<"Z">>

\* String.prototype.replace(/[-:]/g, "")
RemoveDashesAndColons(s) == SelectSeq(s, LAMBDA c : c \notin {"-", ":"})

\* faulty variant of the file name: the seconds are cut off
DownloadNameToMinutes(now) ==
    <<"a", "u", "d", "i", "o", "_">>
    \o RemoveDashesAndColons(Slice(ToISOString(now), 0, 16))
    \o <<".", "m", "p", "3">>

\* the file name of _createDownloadButton
DownloadName(now) ==
    <<"a", "u", "d", "i", "o", "_">>
    \o RemoveDashesAndColons(Slice(ToISOString(now), 0, 19))
    \o <<".", "m", "p", "3">>

\* ---------------------------------------------------------------- renderer
\* JSON.stringify(value, null, 2) is a library function: its result is kept
\* as a term over the value it prints
JSONStringify(value) == <<"stringify", value>>

\* _formatToolCalls: one block for each call, in the order of the array; the
\* result line is there when call.result is truthy
FormatToolCalls(toolCalls) ==
    [i \in DOMAIN toolCalls |->
        [kind |-> "tool-call",
         name |-> toolCalls[i].name,
         parameters |-> JSONStringify(toolCalls[i].parameters),
         result |-> IF Truthy(toolCalls[i].result)
                    THEN Some(toolCalls[i].result[1]) ELSE None]]

\* _formatInternalMessages: one block for each message, in the order of the
\* array
FormatInternalMessages(messages) ==
    [i \in DOMAIN messages |-> [kind |-> "internal-message", text |-> messages[i]]]

\* faulty variant of _createFlowContent: the internal messages come first
CreateFlowContentMessagesFirst(agentFlow) ==
    LET f1 == IF agentFlow.internal_messages # None
              THEN FormatInternalMessages(agentFlow.internal_messages[1])
              ELSE <<>>
        f2 == IF agentFlow.tool_calls # None
              THEN f1 \o FormatToolCalls(agentFlow.tool_calls[1])
              ELSE f1
    IN  IF f2 # <<>> THEN f2
        ELSE <<[kind |-> "dump", text |-> JSONStringify(agentFlow)]>>

\* _createFlowContent: the blocks of the tool calls, then the blocks of the
\* internal messages; an array, empty or not, is truthy.  Every block is a
\* text that is not empty, so formattedFlow is the empty string exactly when
\* there is no block, and then the whole agent_flow is printed.
CreateFlowContent(agentFlow) ==
    LET f1 == IF agentFlow.tool_calls # None
              THEN FormatToolCalls(agentFlow.tool_calls[1])
              ELSE <<>>
        f2 == IF agentFlow.internal_messages # None
              THEN f1 \o FormatInternalMessages(agentFlow.internal_messages[1])
              ELSE f1
    IN  IF f2 # <<>> THEN f2
        ELSE <<[kind |-> "dump", text |-> JSONStringify(agentFlow)]>>

\* _createChipsContainer with _createCostChip and _createAgentFlowChip
ChipsContainer(costInfo, agentFlow) ==
    [cost |-> IF costInfo # None /\ TruthyNumber(costInfo[1].request_cost)
              THEN Some(ToFixed3(costInfo[1].request_cost[1])) ELSE None,
     flow |-> IF agentFlow # None THEN Some(CreateFlowContent(agentFlow[1]))
              ELSE None]

\* faulty variant of appendMessage: the node becomes the first child
AppendMessageFirst(lg, message, isUser, costInfo, agentFlow) ==
    <<[kind   |-> IF isUser THEN "user" ELSE "bot",
       header |-> IF isUser THEN "You" ELSE "Bot",
       body   |-> message,
       chips  |-> IF ~isUser /\ (costInfo # None \/ agentFlow # None)
                  THEN Some(ChipsContainer(costInfo, agentFlow))
                  ELSE None]>> \o lg

\* appendMessage: one node, with a chips container for a bot message that
\* comes with cost_info or agent_flow
AppendMessage(lg, message, isUser, costInfo, agentFlow) ==
    Append(lg, [kind   |-> IF isUser THEN "user" ELSE "bot",
                header |-> IF isUser THEN "You" ELSE "Bot",
                body   |-> message,
                chips  |-> IF ~isUser /\ (costInfo # None \/ agentFlow # None)
                           THEN Some(ChipsContainer(costInfo, agentFlow))
                           ELSE None])

\* appendError
AppendError(lg, title, message) ==
    Append(lg, [kind |-> "error", title |-> title, body |-> message])

\* --------------------------------------------------------------- dispatcher
\* What the frame handler reads and writes.
Page == [log |-> log, audio |-> audio, ledger |-> ledger, steps |-> <<>>]

\* faulty variant of the title choice: the budget test comes first
ErrorTitleBudgetFirst(errorMessage) ==
    IF Includes(errorMessage, NeedleBudget) THEN BUDGET_EXCEEDED
    ELSE IF Includes(errorMessage, NeedlePrompt) THEN PROMPT_TOO_LONG
    ELSE GENERIC

\* the title chosen by handleErrorMessage
ErrorTitle(errorMessage) ==
    IF Includes(errorMessage, NeedlePrompt) THEN PROMPT_TOO_LONG
    ELSE IF Includes(errorMessage, NeedleBudget) THEN BUDGET_EXCEEDED
    ELSE GENERIC

\* handleErrorMessage
HandleErrorMessage(d, data) ==
    LET errorMessage == Trim(Substring(data.message[1], 7))
    IN  [d EXCEPT !.log = AppendError(@, ErrorTitle(errorMessage), errorMessage)]

\* faulty variant of handleImageMessage: the image becomes the first child
HandleImageMessageFirst(d, base64Image) ==
    [d EXCEPT !.log = <<[kind |-> "image", src |-> base64Image]>> \o @]

\* handleImageMessage
HandleImageMessage(d, base64Image) ==
    [d EXCEPT !.log = Append(@, [kind |-> "image", src |-> base64Image])]

\* handleAudioMessage: createAudioPlayer builds the element and its
\* controls, then the container is appended
HandleAudioMessage(d, base64Audio) ==
    [d EXCEPT !.audio = Append(@, NewAudio),
              !.log = Append(@, [kind |-> "audio", src |-> base64Audio,
                                 widget |-> Len(d.audio) + 1])]

\* marked.parse and DOMPurify.sanitize are library functions: their results
\* are kept as terms, so the order of the two applications can be read off
MarkedParse(text) == <<"parse", text>>
DOMPurifySanitize(html) == <<"sanitize", html>>

\* faulty variant of handleResearchMessage: the converted text is inserted
\* without being sanitized
HandleResearchMessageUnsanitized(d, researchResult) ==
    [d EXCEPT !.log = Append(@, [kind |-> "research", header |-> "Bot",
                                 body |-> MarkedParse(researchResult)])]

\* handleResearchMessage: the body is DOMPurify.sanitize(marked.parse(text))
HandleResearchMessage(d, researchResult) ==
    [d EXCEPT !.log = Append(@, [kind |-> "research", header |-> "Bot",
                                 body |-> DOMPurifySanitize(MarkedParse(researchResult))])]

\* faulty variant of updateCostDisplay: a remaining budget of exactly the
\* threshold is warned about
UpdateCostDisplayInclusive(led, costInfo) ==
    IF costInfo = None THEN led
    ELSE LET c  == costInfo[1]
             l1 == IF c.total_cost # None
                   THEN [led EXCEPT !.totalCost = Some(ToFixed3(c.total_cost[1]))]
                   ELSE led
         IN  IF c.remaining_budget # None
             THEN [l1 EXCEPT !.remainingBudget = Some(ToFixed2(c.remaining_budget[1])),
                             !.warning = c.remaining_budget[1] <= LowBudgetThreshold]
             ELSE l1

\* faulty variant of updateCostDisplay: a field the frame does not carry is
\* cleared
UpdateCostDisplayWholesale(led, costInfo) ==
    IF costInfo = None THEN led
    ELSE LET c == costInfo[1]
         IN  [totalCost |-> IF c.total_cost # None
                            THEN Some(ToFixed3(c.total_cost[1])) ELSE None,
              remainingBudget |-> IF c.remaining_budget # None
                                  THEN Some(ToFixed2(c.remaining_budget[1]))
                                  ELSE None,
              warning |-> c.remaining_budget # None
                          /\ c.remaining_budget[1] < LowBudgetThreshold]

\* updateCostDisplay: a field is written when the frame carries a number
\* for it
UpdateCostDisplay(led, costInfo) ==
    IF costInfo = None THEN led
    ELSE LET c  == costInfo[1]
             l1 == IF c.total_cost # None
                   THEN [led EXCEPT !.totalCost = Some(ToFixed3(c.total_cost[1]))]
                   ELSE led
         IN  IF c.remaining_budget # None
             THEN [l1 EXCEPT !.remainingBudget = Some(ToFixed2(c.remaining_budget[1])),
                             !.warning = c.remaining_budget[1] < LowBudgetThreshold]
             ELSE l1

\* faulty variant of the content part: the audio field is handled before
\* the image field
HandleContentAudioFirst(d, data) ==
    LET d1 == IF Truthy(data.message)
              THEN [d EXCEPT !.log = AppendMessage(@, data.message[1], FALSE,
                                                   data.cost_info, data.agent_flow)]
              ELSE d
        d2 == IF Truthy(data.base64_audio)
              THEN HandleAudioMessage(d1, data.base64_audio[1]) ELSE d1
        d3 == IF Truthy(data.base64_image)
              THEN HandleImageMessage(d2, data.base64_image[1]) ELSE d2
    IN  IF Truthy(data.research_result)
        THEN HandleResearchMessage(d3, data.research_result[1]) ELSE d3

\* what handleWebSocketMessage does after the error check
HandleContent(d, data) ==
    LET d1 == IF Truthy(data.message)
              THEN [d EXCEPT !.log = AppendMessage(@, data.message[1], FALSE,
                                                   data.cost_info, data.agent_flow)]
              ELSE d
        d2 == IF Truthy(data.base64_image)
              THEN HandleImageMessage(d1, data.base64_image[1]) ELSE d1
        d3 == IF Truthy(data.base64_audio)
              THEN HandleAudioMessage(d2, data.base64_audio[1]) ELSE d2
    IN  IF Truthy(data.research_result)
        THEN HandleResearchMessage(d3, data.research_result[1]) ELSE d3

\* faulty variant of handleWebSocketMessage: no return after the error card
HandleWebSocketMessageNoReturn(d, data) ==
    LET d1 == IF data.cost_info # None
              THEN Step([d EXCEPT !.ledger = UpdateCostDisplay(@, data.cost_info)],
                        "ledger", Len(d.log))
              ELSE d
        d2 == IF data.message # None /\ StartsWith(data.message[1], ErrorPrefix)
              THEN HandleErrorMessage(d1, data) ELSE d1
    IN  HandleContent(d2, data)

\* faulty variant of handleWebSocketMessage: the error check comes first, so
\* an error frame leaves the ledger alone
HandleWebSocketMessageErrorFirst(d, data) ==
    IF data.message # None /\ StartsWith(data.message[1], ErrorPrefix)
    THEN HandleErrorMessage(d, data)
    ELSE HandleContent(IF data.cost_info # None
                       THEN Step([d EXCEPT !.ledger =
                                      UpdateCostDisplay(@, data.cost_info)],
                                 "ledger", Len(d.log))
                       ELSE d, data)

\* faulty variant of handleWebSocketMessage: the ledger is written after the
\* nodes of the frame are appended
HandleWebSocketMessageCostLast(d, data) ==
    LET d1 == IF data.message # None /\ StartsWith(data.message[1], ErrorPrefix)
              THEN HandleErrorMessage(d, data)
              ELSE HandleContent(d, data)
    IN  IF data.cost_info # None
        THEN Step([d1 EXCEPT !.ledger = UpdateCostDisplay(@, data.cost_info)],
                  "ledger", Len(d1.log))
        ELSE d1

\* handleWebSocketMessage.  The step "ledger" notes how many nodes the log
\* holds at the moment the ledger is written.
HandleWebSocketMessage(d, data) ==
    LET d1 == IF data.cost_info # None
              THEN Step([d EXCEPT !.ledger = UpdateCostDisplay(@, data.cost_info)],
                        "ledger", Len(d.log))
              ELSE d
    IN  IF data.message # None /\ StartsWith(data.message[1], ErrorPrefix)
        THEN HandleErrorMessage(d1, data)
        ELSE HandleContent(d1, data)

\* ------------------------------------------------------------------ frames
MsgHi == <<"h", "i">>
MsgErrBudget == <<"E", "r", "r", "o", "r", ":", " ", "b", "u", "d", "g", "e", "t",
                  " ", "e", "x", "c", "e", "e", "d", "e", "d">>
MsgErrTight == <<"E", "r", "r", "o", "r", ":", "n", "o">>
Payload == <<"Q", "Q", "=", "=">>
BadPayload == <<"%", "%">>
Empty == <<>>

CostA == [request_cost |-> Some(125), total_cost |-> Some(35000),
          remaining_budget |-> Some(40000)]
CostB == [request_cost |-> Some(0), total_cost |-> None,
          remaining_budget |-> Some(215000)]
\* 4.996, shown as 5.00; exactly 5.00; a frame without a remaining budget
CostC == [request_cost |-> None, total_cost |-> Some(200040),
          remaining_budget |-> Some(49960)]
CostD == [request_cost |-> None, total_cost |-> Some(200000),
          remaining_budget |-> Some(50000)]
CostE == [request_cost |-> None, total_cost |-> Some(12346),
          remaining_budget |-> None]
FlowA == [tool_calls |-> None, internal_messages |-> Some(<<MsgHi>>)]

Frame(m, c, a, i, u, r) ==
    [message |-> m, cost_info |-> c, agent_flow |-> a,
     base64_image |-> i, base64_audio |-> u, research_result |-> r]

OptPayload == {None, Some(Payload)}

\* every subset of the six fields
PresenceFrames ==
    {Frame(m, c, a, i, u, r) :
        m \in {None, Some(MsgHi)}, c \in {None, Some(CostA)},
        a \in {None, Some(FlowA)}, i \in OptPayload, u \in OptPayload,
        r \in OptPayload}

\* error messages, alone and with every subset of the other payloads
ErrorFrames ==
    {Frame(Some(MsgErrBudget), c, None, i, u, r) :
        c \in {None, Some(CostA)}, i \in OptPayload, u \in OptPayload,
        r \in OptPayload}
    \cup {Frame(Some(MsgErrTight), None, Some(FlowA), None, Some(Payload), None)}

\* fields that are there but empty
EmptyFrames ==
    {Frame(Some(Empty), Some(CostB), None, None, None, None),
     Frame(Some(MsgHi), Some(CostB), None, Some(Empty), Some(Payload), None),
     Frame(Some(MsgHi), None, None, Some(Payload), Some(Empty), Some(Empty))}

\* cost_info alone, around the low-budget threshold
BudgetFrames ==
    {Frame(None, Some(c), None, None, None, None) : c \in {CostC, CostD, CostE}}

\* a research text alone
ResearchFrames == {Frame(None, None, None, None, None, Some(MsgHi))}

Frames ==
    PresenceFrames \cup ErrorFrames \cup EmptyFrames \cup BudgetFrames
    \cup ResearchFrames

\* a frame that carries an audio clip and nothing else
AudioFrames == {Frame(None, None, None, None, Some(Payload), None)}

\* the clock at the time of a download
Now == {[year |-> 2024, month |-> 1, day |-> 5, hours |-> 9, minutes |-> 3,
         seconds |-> 7, ms |-> 45]}

\* the frames of a conversation: an answer with its cost and trace, an
\* answer with an image, a clip and a research text, a clip alone, an error
SessionFrames ==
    {Frame(Some(MsgHi), Some(CostA), Some(FlowA), None, None, None),
     Frame(Some(MsgHi), None, None, Some(Payload), Some(Payload), Some(Payload)),
     Frame(None, None, None, None, Some(Payload), None),
     Frame(Some(MsgErrBudget), Some(CostB), None, None, None, None)}

\* a clip alone; its payload is base64 or is not
SavedFrames ==
    {Frame(None, None, None, None, Some(Payload), None),
     Frame(None, None, None, None, Some(BadPayload), None)}

\* an answer with a trace and a clip
ClipFrames == {Frame(Some(MsgHi), None, Some(FlowA), None, Some(Payload), None)}

\* what the input holds when the user sends
SessionTexts == {Empty, MsgHi}

\* ---------------------------------------------- inputs of the utilities
\* error texts: up to MaxSegments pieces, among them both needles and the
\* needles in another case
LowerPrompt == <<"p", "r", "o", "m", "p", "t", " ", "m", "u", "s", "t", " ",
                 "b", "e", " ", "l", "e", "n", "g", "t", "h">>
TitleBudget == <<"B", "u", "d", "g", "e", "t", " ", "E", "x", "c", "e", "e",
                 "d", "e", "d">>
Segments == {NeedlePrompt, NeedleBudget, LowerPrompt, TitleBudget, <<"x">>, <<" ">>}

RECURSIVE TextsOf(_)
TextsOf(n) ==
    IF n = 0 THEN {<<>>}
    ELSE TextsOf(n - 1) \cup {t \o g : t \in TextsOf(n - 1), g \in Segments}

ErrorTexts == TextsOf(MaxSegments)

\* clips: a few bytes, and whole numbers of chunks give or take one byte
ClipLengths ==
    (0..4) \cup {k * AudioChunkSize + e : k \in 1..MaxChunks, e \in {-1, 0, 1}}

ClipBytes(n, seed) == [i \in 1..n |-> (i * 7 + seed * 85 + i \div 256) % 256]

Clips == {ClipBytes(n, seed) : n \in ClipLengths, seed \in 0..2}

\* the padded base64 text of a byte sequence, as the server sends it in
\* base64_audio
Base64Encode(bytes) ==
    LET n     == Len(bytes)
        At(i) == IF i <= n THEN bytes[i] ELSE 0
        Group(q) == At(3 * q + 1) * 65536 + At(3 * q + 2) * 256 + At(3 * q + 3)
    IN  [j \in 1..(((n + 2) \div 3) * 4) |->
            LET q == (j - 1) \div 4
                r == (j - 1) % 4
            IN  IF r > Min(3, n - 3 * q) THEN "="
                ELSE Base64Chars[
                        ((Group(q) \div (IF r = 0 THEN 262144 ELSE IF r = 1 THEN 4096
                                         ELSE IF r = 2 THEN 64 ELSE 1)) % 64) + 1]]

\* instants of a download click, UTC
Instants ==
    {[year |-> y, month |-> mo, day |-> d, hours |-> h, minutes |-> mi,
      seconds |-> sec, ms |-> ms] :
        y \in {1999, 2024}, mo \in {1, 12}, d \in {5, 31}, h \in {0, 23},
        mi \in {3, 59}, sec \in {7, 59}, ms \in {0, 999}}

\* tool calls: with a result, without one, and with an empty text as result
CallSearch == [name |-> "search", parameters |-> [query |-> MsgHi],
               result |-> Some(MsgHi)]
CallSpeak == [name |-> "speak", parameters |-> [text |-> MsgHi], result |-> None]
CallDraw == [name |-> "draw", parameters |-> [prompt |-> Empty],
             result |-> Some(Empty)]

\* the lists of at most n elements of set S
ListsOf(S, n) == UNION {[1..k -> S] : k \in 0..n}

\* agent_flow objects: each array missing, empty, or holding up to MaxBlocks
\* elements in every order
Flows ==
    {[tool_calls |-> t, internal_messages |-> m] :
        t \in {None} \cup {Some(l) : l \in ListsOf({CallSearch, CallSpeak, CallDraw},
                                                  MaxBlocks)},
        m \in {None} \cup {Some(l) : l \in ListsOf({MsgHi, Payload}, MaxBlocks)}}

\* times: whole seconds, and the duration of a clip that is not loaded
Times == (0..MaxSeconds) \cup {NaN}

\* ---------------------------------------------------------------- actions
\* The event that created each child of messagesContainer: tag for the nodes
\* of new that old does not hold, the recorded origin for the nodes kept at
\* the front and at the back.
CommonPrefix(a, b) ==
    Cardinality({k \in 1..Min(Len(a), Len(b)) : SubSeq(a, 1, k) = SubSeq(b, 1, k)})

CommonSuffix(a, b) ==
    Cardinality({k \in 1..Min(Len(a), Len(b)) :
                    SubSeq(a, Len(a) - k + 1, Len(a)) = SubSeq(b, Len(b) - k + 1, Len(b))})

NodeOrigins(old, new, org, tag) ==
    LET p == CommonPrefix(old, new)
        q == Min(CommonSuffix(old, new), Min(Len(old), Len(new)) - p)
    IN  SubSeq(org, 1, p)
        \o [i \in 1..(Len(new) - p - q) |-> tag]
        \o SubSeq(org, Len(old) - q + 1, Len(old))

\* the origin of a node a user send has created
FromUser == 0

NoProbe == [fn |-> "none", done |-> FALSE]

Commit(op, w, s) ==
    /\ audio' = s.audio
    /\ currentAudio' = s.cur
    /\ last' = [op |-> op, w |-> w, from |-> StateOf(audio[w]),
                fault |-> s.fault, steps |-> s.steps]

\* the connection is established: readyState becomes OPEN.  The page sets
\* no onopen handler, so nothing else happens.
OnOpen ==
    /\ readyState = "CONNECTING"
    /\ readyState' = "OPEN"
    /\ last' = [op |-> "open", w |-> 0, from |-> "none", fault |-> FALSE,
                steps |-> <<>>]
    /\ UNCHANGED <<log, audio, currentAudio, ledger, delivered, outbox,
                   expanded, origin, probe>>

\* the transport delivers frame f on the open socket: ws.onmessage
OnFrame(f) ==
    /\ readyState = "OPEN"
    /\ LET d == HandleWebSocketMessage(Page, f)
       IN  /\ log' = d.log
           /\ audio' = d.audio
           /\ ledger' = d.ledger
           /\ origin' = NodeOrigins(log, d.log, origin, delivered + 1)
           /\ last' = [op |-> "frame", w |-> 0, from |-> "none", fault |-> FALSE,
                       steps |-> d.steps, frame |-> f]
    /\ delivered' = delivered + 1
    /\ UNCHANGED <<readyState, currentAudio, outbox, expanded, probe>>

\* the transport delivers a text that is no JSON: JSON.parse throws a
\* SyntaxError inside ws.onmessage, nothing catches it, and
\* handleWebSocketMessage is not reached
OnUnparsable ==
    /\ readyState = "OPEN"
    /\ delivered' = delivered + 1
    /\ last' = [op |-> "unparsable", w |-> 0, from |-> "none", fault |-> TRUE,
                steps |-> << <<"throw", 0>> >>, error |-> "SyntaxError"]
    /\ UNCHANGED <<readyState, log, audio, currentAudio, ledger, outbox,
                   expanded, origin, probe>>

\* WebSocket.send: a socket that is still connecting throws an
\* InvalidStateError; an open socket takes the data
WsSendThrows == readyState = "CONNECTING"

\* the user presses Enter or clicks Send while the input holds text:
\* ChatApp.sendMessage, then WebSocketHandler.sendMessage, which appends the
\* "You" node and then calls ws.send; the input is cleared after
\* wsHandler.sendMessage has returned
SendMessage(text) ==
    /\ LET lg == IF text # <<>>
                 THEN AppendMessage(log, text, TRUE, None, None) ELSE log
           thrown == text # <<>> /\ WsSendThrows
       IN  /\ log' = lg
           /\ origin' = NodeOrigins(log, lg, origin, FromUser)
           /\ outbox' = IF text # <<>> /\ ~thrown THEN Append(outbox, text)
                        ELSE outbox
           /\ last' = [op |-> "send", w |-> 0, from |-> "none", fault |-> thrown,
                       steps |-> IF thrown THEN << <<"throw", 0>> >> ELSE <<>>,
                       text |-> text,
                       input |-> IF text # <<>> /\ ~thrown THEN <<>> ELSE text]
    /\ UNCHANGED <<readyState, audio, currentAudio, ledger, delivered, expanded,
                   probe>>

\* faulty variant of the chip's click listener: the class "collapsed" is
\* removed, never put back
ToggleCollapsedOpensOnly(exp, i) == exp \cup {i}

\* flowChip.classList.toggle("collapsed") on the chip of log node i; exp
\* holds the nodes whose chip is without the class
ToggleCollapsed(exp, i) == IF i \in exp THEN exp \ {i} ELSE exp \cup {i}

\* the user clicks the header of the agent-flow chip of log node i
ToggleTrace(i) ==
    /\ log[i].kind = "bot"
    /\ log[i].chips # None
    /\ log[i].chips[1].flow # None
    /\ expanded' = ToggleCollapsed(expanded, i)
    /\ last' = [op |-> "trace", w |-> 0, from |-> "none", fault |-> FALSE,
                steps |-> <<>>, node |-> i]
    /\ UNCHANGED <<readyState, log, audio, currentAudio, ledger, delivered, outbox, origin,
                   probe>>

\* the user clicks the play button of widget w
Toggle(w) ==
    /\ Commit("toggle", w, ClickPlayButton(Entry, w))
    /\ UNCHANGED <<readyState, log, ledger, delivered, outbox, expanded, origin, probe>>

\* the user clicks the progress track of widget w at fraction k / Dur
Seek(w, k) ==
    /\ LET s == ClickProgress(Entry, w, k)
       IN  /\ audio' = s.audio
           /\ currentAudio' = s.cur
           /\ last' = [op |-> "seek", w |-> w, from |-> StateOf(audio[w]),
                       fault |-> s.fault, steps |-> s.steps, pos |-> k]
    /\ UNCHANGED <<readyState, log, ledger, delivered, outbox, expanded, origin, probe>>

\* the browser has read the clip's metadata
LoadedMetadata(w) ==
    /\ audio[w].duration = NaN
    /\ audio' = [audio EXCEPT ![w].duration = Dur]
    /\ last' = [op |-> "metadata", w |-> w, from |-> StateOf(audio[w]),
                fault |-> FALSE, steps |-> <<>>]
    /\ UNCHANGED <<readyState, log, currentAudio, ledger, delivered, outbox, expanded,
                   origin, probe>>

\* the timeupdate listener: the width of the progress bar, in percent, and
\* the text of the time label
OnTimeUpdateListener(a) ==
    [progress |-> IF a.duration = NaN THEN NaN
                  ELSE (a.currentTime * 100) \div a.duration,
     label |-> FormatTime(a.currentTime) \o <<" ", "/", " ">>
               \o FormatTime(a.duration)]

\* playback advances by one unit and a timeupdate is delivered
Tick(w) ==
    /\ ~audio[w].paused
    /\ audio[w].duration # NaN
    /\ audio[w].currentTime + 1 < audio[w].duration
    /\ audio' = [audio EXCEPT ![w].currentTime = @ + 1]
    /\ last' = [op |-> "tick", w |-> w, from |-> StateOf(audio[w]),
                fault |-> FALSE, steps |-> <<>>,
                shown |-> OnTimeUpdateListener(audio'[w])]
    /\ UNCHANGED <<readyState, log, currentAudio, ledger, delivered, outbox, expanded,
                   origin, probe>>

\* a timeupdate is delivered while the position stands, as after a seek or
\* while the clip is still loading
TimeUpdate(w) ==
    /\ last' = [op |-> "timeupdate", w |-> w, from |-> StateOf(audio[w]),
                fault |-> FALSE, steps |-> <<>>,
                shown |-> OnTimeUpdateListener(audio[w])]
    /\ UNCHANGED <<readyState, log, audio, currentAudio, ledger, delivered, outbox,
                   expanded, origin, probe>>

\* the base64Audio the controls of widget w were built with
Base64Of(w) ==
    log[CHOOSE i \in DOMAIN log : log[i].kind = "audio" /\ log[i].widget = w].src

\* the user clicks the download button of widget w at instant now
Download(w, now) ==
    /\ LET s == ClickDownload(Entry, w, IsBase64(Base64Of(w)))
       IN  /\ audio' = s.audio
           /\ currentAudio' = s.cur
           /\ last' = [op |-> "download", w |-> w, from |-> StateOf(audio[w]),
                       fault |-> s.fault, steps |-> s.steps,
                       saved |-> IF s.fault THEN None
                                 ELSE Some([name |-> DownloadName(now),
                                            blob |-> Base64ToBlob(Base64Of(w),
                                                                  "audio/mp3")])]
    /\ UNCHANGED <<readyState, log, ledger, delivered, outbox, expanded, origin, probe>>

\* playback reaches the end: the element stands at its end, is paused by
\* the browser, and the ended listener runs
Ended(w) ==
    /\ ~audio[w].paused
    /\ audio[w].duration # NaN
    /\ LET a  == [audio[w] EXCEPT !.paused = TRUE, !.phase = "ended",
                                   !.currentTime = audio[w].duration]
           s0 == [Entry EXCEPT !.audio[w] = a]
       IN  Commit("ended", w, OnEndedListener(s0, w))
    /\ UNCHANGED <<readyState, log, ledger, delivered, outbox, expanded, origin, probe>>

\* the page after construction
InitPage ==
    /\ log = <<>>
    /\ audio = <<>>
    /\ currentAudio = Null
    /\ ledger = [totalCost |-> None, remainingBudget |-> None, warning |-> FALSE]
    /\ delivered = 0
    /\ outbox = <<>>
    /\ readyState = "CONNECTING"
    /\ expanded = {}
    /\ origin = <<>>
    /\ last = [op |-> "init", w |-> 0, from |-> "none", fault |-> FALSE,
               steps |-> <<>>]

Init ==
    /\ InitPage
    /\ probe = NoProbe

\* the messages the user has sent so far
Sends == Cardinality({i \in DOMAIN log : log[i].kind = "user"})

\* the audio player: clips arrive and are played
Next ==
    \/ OnOpen
    \/ \E f \in AudioFrames : Len(audio) < MaxWidgets /\ OnFrame(f)
    \/ \E w \in Widgets : Toggle(w)
    \/ \E w \in Widgets, k \in 0..Dur : Seek(w, k)
    \/ \E w \in Widgets : LoadedMetadata(w)
    \/ \E w \in Widgets : Tick(w)
    \/ \E w \in Widgets : TimeUpdate(w)
    \/ \E w \in Widgets : Ended(w)
    \/ \E w \in Widgets, now \in Now : Download(w, now)

Spec == Init /\ [][Next]_vars

\* the dispatcher: frames of every shape arrive
NextFrames ==
    \/ OnOpen
    \/ \E f \in Frames : delivered < MaxFrames /\ OnFrame(f)
    \/ delivered < MaxFrames /\ OnUnparsable

SpecFrames == Init /\ [][NextFrames]_vars

\* the conversation: frames arrive while the user sends messages, opens and
\* closes traces and plays the clips
NextSession ==
    \/ OnOpen
    \/ \E f \in SessionFrames : delivered < MaxFrames /\ OnFrame(f)
    \/ \E text \in SessionTexts : Sends < MaxSends /\ SendMessage(text)
    \/ \E i \in DOMAIN log : ToggleTrace(i)
    \/ \E w \in Widgets : Toggle(w)
    \/ \E w \in Widgets : LoadedMetadata(w)
    \/ \E w \in Widgets : Ended(w)

SpecSession == Init /\ [][NextSession]_vars

\* a short conversation with clips: every kind of event happens, on at
\* most MaxClips answers, each with a trace and a clip; the user writes
\* once the connection is open
NextClips ==
    \/ OnOpen
    \/ \E f \in ClipFrames : Len(audio) < MaxClips /\ OnFrame(f)
    \/ \E text \in SessionTexts : readyState = "OPEN" /\ Sends < MaxSends
                                   /\ SendMessage(text)
    \/ \E i \in DOMAIN log : ToggleTrace(i)
    \/ \E w \in Widgets : Toggle(w)
    \/ \E w \in Widgets, k \in 0..Dur : Seek(w, k)
    \/ \E w \in Widgets : LoadedMetadata(w)
    \/ \E w \in Widgets : Tick(w)
    \/ \E w \in Widgets : Ended(w)
    \/ \E w \in Widgets, now \in Now : Download(w, now)

SpecClips == Init /\ [][NextClips]_vars

\* downloads: clips arrive, some with a payload that is no base64, and are
\* played and saved
NextDownloads ==
    \/ OnOpen
    \/ \E f \in SavedFrames : Len(audio) < MaxWidgets /\ OnFrame(f)
    \/ \E w \in Widgets : Toggle(w)
    \/ \E w \in Widgets : LoadedMetadata(w)
    \/ \E w \in Widgets : Ended(w)
    \/ \E w \in Widgets, now \in Now : Download(w, now)

SpecDownloads == Init /\ [][NextDownloads]_vars

\* the utilities: a function and an input are drawn, the function is applied
UtilityInputs ==
    {[fn |-> "errorTitle", in |-> text, done |-> FALSE] : text \in ErrorTexts}
    \cup {[fn |-> "base64ToBlob", in |-> Base64Encode(bytes), of |-> bytes,
           done |-> FALSE] : bytes \in Clips}
    \cup {[fn |-> "formatTime", in |-> seconds, done |-> FALSE] : seconds \in Times}
    \cup {[fn |-> "downloadName", in |-> now, done |-> FALSE] : now \in Instants}
    \cup {[fn |-> "flowContent", in |-> flow, done |-> FALSE] : flow \in Flows}

InitUtils ==
    /\ InitPage
    /\ probe \in UtilityInputs

\* handleErrorMessage classifies the error text
ApplyErrorTitle ==
    /\ probe.fn = "errorTitle" /\ ~probe.done
    /\ probe' = [fn |-> probe.fn, in |-> probe.in, done |-> TRUE,
                 out |-> ErrorTitle(probe.in)]
    /\ UNCHANGED <<readyState, log, audio, currentAudio, ledger, delivered, outbox,
                   expanded, origin, last>>

\* the download handler decodes the clip
ApplyBase64ToBlob ==
    /\ probe.fn = "base64ToBlob" /\ ~probe.done
    /\ probe' = [fn |-> probe.fn, in |-> probe.in, of |-> probe.of, done |-> TRUE,
                 out |-> Base64ToBlob(probe.in, "audio/mp3"),
                 byteArrays |-> ByteArrays(Atob(probe.in))]
    /\ UNCHANGED <<readyState, log, audio, currentAudio, ledger, delivered, outbox,
                   expanded, origin, last>>

\* the timeupdate listener formats a time
ApplyFormatTime ==
    /\ probe.fn = "formatTime" /\ ~probe.done
    /\ probe' = [fn |-> probe.fn, in |-> probe.in, done |-> TRUE,
                 out |-> FormatTime(probe.in)]
    /\ UNCHANGED <<readyState, log, audio, currentAudio, ledger, delivered, outbox,
                   expanded, origin, last>>

\* the download listener names the file
ApplyDownloadName ==
    /\ probe.fn = "downloadName" /\ ~probe.done
    /\ probe' = [fn |-> probe.fn, in |-> probe.in, done |-> TRUE,
                 out |-> DownloadName(probe.in)]
    /\ UNCHANGED <<readyState, log, audio, currentAudio, ledger, delivered, outbox,
                   expanded, origin, last>>

\* _createAgentFlowChip fills the body of a trace
ApplyCreateFlowContent ==
    /\ probe.fn = "flowContent" /\ ~probe.done
    /\ probe' = [fn |-> probe.fn, in |-> probe.in, done |-> TRUE,
                 out |-> CreateFlowContent(probe.in)]
    /\ UNCHANGED <<readyState, log, audio, currentAudio, ledger, delivered, outbox,
                   expanded, origin, last>>

NextUtils ==
    \/ ApplyErrorTitle
    \/ ApplyBase64ToBlob
    \/ ApplyFormatTime
    \/ ApplyDownloadName
    \/ ApplyCreateFlowContent

SpecUtils == InitUtils /\ [][NextUtils]_vars

\* ==================================================================
\* Properties
\* ==================================================================
Playing(w) == StateOf(audio[w]) = "Playing"

\* the step just taken was the handler op on widget w
Did(op, w) == last'.op = op /\ last'.w = w

\* the nodes the step just taken has added to the log
Appended == SubSeq(log', Len(log) + 1, Len(log'))

KindsOf(nodes) == [i \in DOMAIN nodes |-> nodes[i].kind]

IsErrorFrame(f) == f.message # None /\ StartsWith(f.message[1], ErrorPrefix)

\* ---- the audio player (Spec) ----

C2_ToggleAlwaysStarts ==
    (last.op = "toggle" /\ last.from # "Playing")
        => /\ ~last.fault
           /\ Playing(last.w)
           /\ currentAudio = last.w
           /\ \A v \in Widgets : v # last.w => ~Playing(v)

\* C3: a toggle on W while a different widget V is Playing leaves V paused
\* at position 0 with its button back to "Play", and V is reset before
\* W changes state.
C3_OtherIsFullyReset ==
    [][\A w, v \in Widgets :
          (Did("toggle", w) /\ v # w /\ Playing(v))
              => /\ audio'[v].paused
                 /\ audio'[v].currentTime = 0
                 /\ audio'[v].button = "play"
                 /\ \E i \in DOMAIN last'.steps :
                        /\ last'.steps[i] = <<"button-play", v>>
                        /\ \A j \in DOMAIN last'.steps :
                               last'.steps[j][2] = w => i < j]_vars

C6_EndedIsTerminal ==
    [][\A w \in Widgets :
          StateOf(audio[w]) = "Ended" => StateOf(audio'[w]) = "Ended"]_vars

\* C6 as amended: an Ended widget stays Ended under every event but a toggle
\* on the widget itself; such a toggle, when it completes, makes it Playing
\* and the active widget again.
C6_EndedLeftOnlyByOwnToggle ==
    [][\A w \in Widgets :
          StateOf(audio[w]) = "Ended"
              => \/ StateOf(audio'[w]) = "Ended"
                 \/ /\ Did("toggle", w)
                    /\ ~last'.fault
                    /\ StateOf(audio'[w]) = "Playing"
                    /\ currentAudio' = w]_vars

\* an Ended widget has been toggled and plays again
C6_Witness ==
    /\ last.op = "toggle" /\ last.from = "Ended"
    /\ Playing(last.w)
    /\ currentAudio = last.w

\* C7: a seek on a widget whose duration is unknown changes no position, no
\* play state and not currentAudio, and raises no error.
C7_SeekUnknownDurationIsSilent ==
    [][\A w \in Widgets :
          (Did("seek", w) /\ audio[w].duration = NaN)
              => /\ audio' = audio
                 /\ currentAudio' = currentAudio
                 /\ ~last'.fault]_vars

\* ---- the dispatcher (SpecFrames) ----

\* C8: a frame whose message begins with "Error:" adds exactly one error
\* card and no bot text message to the log.
C8_ErrorCardOnly ==
    [][(last'.op = "frame" /\ IsErrorFrame(last'.frame))
          => /\ SubSeq(log', 1, Len(log)) = log
             /\ Cardinality({i \in DOMAIN Appended :
                                Appended[i].kind = "error"}) = 1
             /\ \A i \in DOMAIN Appended : Appended[i].kind # "bot"]_vars

\* an error frame has been handled after another frame and its card is the
\* newest node
C8_Witness ==
    /\ last.op = "frame" /\ IsErrorFrame(last.frame)
    /\ delivered >= 2
    /\ Len(log) >= 2
    /\ log[Len(log)].kind = "error"

\* the widgets of the payload fields of frame f, in dispatch order
PayloadKinds(f) ==
    (IF Truthy(f.base64_image) THEN <<"image">> ELSE <<>>)
    \o (IF Truthy(f.base64_audio) THEN <<"audio">> ELSE <<>>)
    \o (IF Truthy(f.research_result) THEN <<"research">> ELSE <<>>)

\* the ledger after a frame with cost_info c
LedgerShows(c) ==
    /\ c.total_cost # None => ledger'.totalCost = Some(ToFixed3(c.total_cost[1]))
    /\ c.remaining_budget # None =>
           ledger'.remainingBudget = Some(ToFixed2(c.remaining_budget[1]))

C10_ContentOrder ==
    [][(last'.op = "frame" /\ ~IsErrorFrame(last'.frame))
          => /\ SubSeq(log', 1, Len(log)) = log
             /\ KindsOf(Appended) =
                    (IF Truthy(last'.frame.message) THEN <<"bot">> ELSE <<>>)
                    \o PayloadKinds(last'.frame)]_vars

\* a frame with a message, cost_info, agent_flow, an image and an audio clip
\* but no research text has added exactly message, image, audio
C10_Witness ==
    /\ last.op = "frame" /\ ~IsErrorFrame(last.frame)
    /\ Truthy(last.frame.message)
    /\ last.frame.cost_info # None /\ last.frame.agent_flow # None
    /\ PayloadKinds(last.frame) = <<"image", "audio">>
    /\ Len(log) >= 3
    /\ KindsOf(SubSeq(log, Len(log) - 2, Len(log))) = <<"bot", "image", "audio">>

\* C13: every frame that carries cost_info updates the ledger, whatever
\* else it carries (an error message, no message at all), and the ledger is
\* written before any node of that frame is appended to the log.
C13_CostInfoUpdatesLedgerFirst ==
    [][(last'.op = "frame" /\ last'.frame.cost_info # None)
          => /\ LedgerShows(last'.frame.cost_info[1])
             /\ \E i \in DOMAIN last'.steps : last'.steps[i][1] = "ledger"
             /\ \A i \in DOMAIN last'.steps :
                    last'.steps[i][1] = "ledger" => last'.steps[i][2] = Len(log)]_vars

\* an error frame with cost_info has come after another frame: the ledger
\* was written while the log still had its old length, the card came after
C13_Witness ==
    /\ last.op = "frame" /\ IsErrorFrame(last.frame)
    /\ last.frame.cost_info # None
    /\ \E n \in 1..(Len(log) - 1) : last.steps = << <<"ledger", n>> >>
    /\ ledger.remainingBudget =
           Some(ToFixed2(last.frame.cost_info[1].remaining_budget[1]))

\* the remaining budget of frame f, when it carries one
RemainingOf(f) ==
    IF f.cost_info # None THEN f.cost_info[1].remaining_budget ELSE None

\* the total cost of frame f, when it carries one
TotalOf(f) ==
    IF f.cost_info # None THEN f.cost_info[1].total_cost ELSE None

\* C14 as stated: after any sequence of frames, the remaining-budget field
\* carries the warning exactly when the amount it displays is strictly
\* below 5.00.
C14_WarningIffShownBelowThreshold ==
    ledger.remainingBudget # None
        => (ledger.warning
                <=> ledger.remainingBudget[1].digits * 100 < LowBudgetThreshold)

\* C14 as amended: the warning follows the amount received, not the amount
\* displayed: a frame with a remaining budget r sets the field to r rounded
\* to two decimals and the warning to r < 5.00 (exactly 5.00: no warning);
\* a frame without one leaves the field and the warning as they were.
C14_WarningIffReceivedBelowThreshold ==
    [][last'.op = "frame"
          => IF RemainingOf(last'.frame) # None
             THEN /\ ledger'.remainingBudget =
                         Some(ToFixed2(RemainingOf(last'.frame)[1]))
                  /\ ledger'.warning
                         <=> RemainingOf(last'.frame)[1] < LowBudgetThreshold
             ELSE /\ ledger'.remainingBudget = ledger.remainingBudget
                  /\ ledger'.warning = ledger.warning]_vars

\* a remaining budget of 4.996 has arrived after one of exactly 5.00: the
\* field displays 5.00 and now carries the warning
C14_Witness ==
    /\ last.op = "frame" /\ RemainingOf(last.frame) = Some(49960)
    /\ delivered >= 2
    /\ ledger.remainingBudget = Some([decimals |-> 2, digits |-> 500])
    /\ ledger.warning

\* C15 as stated: a frame with cost_info overwrites the ledger wholesale:
\* afterwards the total, the remaining budget and the warning hold what
\* this frame alone gives, and nothing of an earlier frame.
C15_LedgerOverwrittenWholesale ==
    [][(last'.op = "frame" /\ last'.frame.cost_info # None)
          => ledger' =
                [totalCost |->
                     IF TotalOf(last'.frame) # None
                     THEN Some(ToFixed3(TotalOf(last'.frame)[1])) ELSE None,
                 remainingBudget |->
                     IF RemainingOf(last'.frame) # None
                     THEN Some(ToFixed2(RemainingOf(last'.frame)[1])) ELSE None,
                 warning |->
                     /\ RemainingOf(last'.frame) # None
                     /\ RemainingOf(last'.frame)[1] < LowBudgetThreshold]]_vars

\* C15 as amended: a frame with cost_info overwrites each ledger field it
\* carries a number for: total_cost the total, remaining_budget the
\* remaining budget and the warning; a field it does not carry keeps the
\* value of an earlier frame.
C15_LedgerOverwrittenFieldwise ==
    [][(last'.op = "frame" /\ last'.frame.cost_info # None)
          => /\ ledger'.totalCost =
                    IF TotalOf(last'.frame) # None
                    THEN Some(ToFixed3(TotalOf(last'.frame)[1]))
                    ELSE ledger.totalCost
             /\ ledger'.remainingBudget =
                    IF RemainingOf(last'.frame) # None
                    THEN Some(ToFixed2(RemainingOf(last'.frame)[1]))
                    ELSE ledger.remainingBudget
             /\ ledger'.warning =
                    IF RemainingOf(last'.frame) # None
                    THEN RemainingOf(last'.frame)[1] < LowBudgetThreshold
                    ELSE ledger.warning]_vars

\* a frame without a total cost has come after a frame with one: the
\* remaining budget is the new one, the total is still the earlier one
C15_Witness ==
    /\ last.op = "frame" /\ last.frame.cost_info = Some(CostB)
    /\ ledger.totalCost = Some(ToFixed3(CostA.total_cost[1]))
    /\ ledger.remainingBudget = Some(ToFixed2(CostB.remaining_budget[1]))
    /\ ~ledger.warning

\* C16: for a message that begins with "Error:", the body of the error
\* card is the message without exactly the prefix "Error:", trimmed, with
\* no other character lost, and the title is the classification of that
\* body.
C16_ErrorBodyIsMessageWithoutPrefix ==
    (last.op = "frame" /\ IsErrorFrame(last.frame))
        => /\ log # <<>>
           /\ log[Len(log)].kind = "error"
           /\ log[Len(log)].body =
                  Trim(Substring(last.frame.message[1], Len(ErrorPrefix)))
           /\ log[Len(log)].title = ErrorTitle(log[Len(log)].body)

\* ---- the conversation (SpecSession) ----

\* C11: the message log only grows at its end: across frame arrivals, user
\* sends, trace toggles and audio events, the log before a step is a prefix
\* of the log after it; no node is removed, replaced or moved.
C11_LogAppendOnly ==
    [][/\ Len(log') >= Len(log)
       /\ \A i \in DOMAIN log : log'[i] = log[i]]_vars

\* a log of a user message and the nodes of two frames, with a trace opened
\* and a clip played
C11_Witness ==
    /\ Len(log) >= 3
    /\ delivered >= 2
    /\ \E i \in DOMAIN log : log[i].kind = "user"
    /\ expanded # {}
    /\ \E w \in Widgets : audio[w].phase # "idle"

\* C12: frames are handled in arrival order and one at a time: the nodes of
\* an earlier frame all stand before the nodes of a later frame, and between
\* two nodes of one frame stands no node of a user send or of another frame.
C12_FramesInOrderAndWhole ==
    /\ Len(origin) = Len(log)
    /\ \A i, j \in DOMAIN origin :
           (i < j /\ origin[i] # FromUser /\ origin[j] # FromUser)
               => origin[i] <= origin[j]
    /\ \A i, j, k \in DOMAIN origin :
           (i < k /\ k < j /\ origin[i] # FromUser /\ origin[i] = origin[j])
               => origin[k] = origin[i]

\* the nodes of a first frame, a user message, then the several nodes of a
\* second frame
C12_Witness ==
    \E i, j, k \in DOMAIN origin :
        /\ i < j /\ j + 1 < k
        /\ origin[i] = 1 /\ origin[j] = FromUser
        /\ origin[j + 1] = 2 /\ origin[k] = 2
        /\ log[j].kind = "user"

\* ---- the time label (Spec) ----

LabelChars == {DigitChars[i] : i \in DOMAIN DigitChars} \cup {":", " ", "/"}

\* C20: a time that is not a number, such as the duration of a clip whose
\* metadata is not loaded, is formatted as "0:00", so the time label a
\* timeupdate writes never shows a component that is not numeric.
C20_LabelAlwaysNumeric ==
    last.op \in {"tick", "timeupdate"}
        => LET label == last.shown.label
           IN  /\ \A i \in DOMAIN label : label[i] \in LabelChars
               /\ audio[last.w].duration = NaN
                      => SubSeq(label, Len(label) - 6, Len(label))
                             = <<" ", "/", " ", "0", ":", "0", "0">>

\* a timeupdate has reached a widget whose duration is still unknown
C20_Witness ==
    /\ last.op = "timeupdate"
    /\ audio[last.w].duration = NaN
    /\ last.shown.label = <<"0", ":", "0", "0", " ", "/", " ", "0", ":", "0", "0">>
    /\ last.shown.progress = NaN

\* ---- the utilities (SpecUtils) ----

\* text s holds text sub at offset i
OccursAt(s, sub, i) ==
    /\ i + Len(sub) <= Len(s)
    /\ \A k \in 1..Len(sub) : s[i + k] = sub[k]

Occurs(s, sub) == \E i \in 0..Len(s) : OccursAt(s, sub, i)

\* C17: the classification is total and the first match wins, on a
\* case-sensitive substring test: a text that holds "Prompt must be length"
\* is PROMPT_TOO_LONG even when it also holds "budget exceeded"; otherwise a
\* text that holds "budget exceeded" is BUDGET_EXCEEDED; every other text
\* is GENERIC.
C17_FirstMatchWins ==
    (probe.fn = "errorTitle" /\ probe.done)
        => /\ probe.out \in {PROMPT_TOO_LONG, BUDGET_EXCEEDED, GENERIC}
           /\ Occurs(probe.in, NeedlePrompt) => probe.out = PROMPT_TOO_LONG
           /\ (~Occurs(probe.in, NeedlePrompt) /\ Occurs(probe.in, NeedleBudget))
                  => probe.out = BUDGET_EXCEEDED
           /\ (~Occurs(probe.in, NeedlePrompt) /\ ~Occurs(probe.in, NeedleBudget))
                  => probe.out = GENERIC

\* a text that holds "budget exceeded" first and "Prompt must be length"
\* after it has been classified as PROMPT_TOO_LONG
C17_Witness ==
    /\ probe.fn = "errorTitle" /\ probe.done
    /\ probe.in = NeedleBudget \o NeedlePrompt
    /\ probe.out = PROMPT_TOO_LONG

\* C18: decoding is lossless: for every byte sequence, the empty one and
\* those of a whole number of chunks give or take one byte among them, the
\* blob decoded from its base64 text holds exactly these bytes.
C18_DecodeInvertsEncode ==
    (probe.fn = "base64ToBlob" /\ probe.done)
        => /\ probe.in = Base64Encode(probe.of)
           /\ Len(probe.out.bytes) = Len(probe.of)
           /\ \A i \in DOMAIN probe.of : probe.out.bytes[i] = probe.of[i]

\* a clip of one chunk and one byte has been decoded into two parts
C18_Witness ==
    /\ probe.fn = "base64ToBlob" /\ probe.done
    /\ Len(probe.of) = AudioChunkSize + 1
    /\ probe.out.parts = 2
    /\ probe.out.bytes = probe.of
    /\ probe.of[AudioChunkSize + 1] # probe.of[AudioChunkSize]

DigitValue(c) == (CHOOSE i \in DOMAIN DigitChars : DigitChars[i] = c) - 1

IsDigits(cs) == \A i \in DOMAIN cs : \E j \in DOMAIN DigitChars : cs[i] = DigitChars[j]

\* the number a text of decimal digits stands for
RECURSIVE Decimal(_)
Decimal(cs) ==
    IF cs = <<>> THEN 0
    ELSE Decimal(SubSeq(cs, 1, Len(cs) - 1)) * 10 + DigitValue(cs[Len(cs)])

\* C19: for a whole number s >= 0 of seconds the formatter gives the minutes
\* floor(s / 60), unpadded, then ":", then s mod 60 on two digits:
\* 75 gives "1:15", 59 "0:59", 0 "0:00", 600 "10:00".
C19_MinutesAndPaddedSeconds ==
    (probe.fn = "formatTime" /\ probe.done /\ probe.in # NaN)
        => LET out  == probe.out
               n    == Len(out)
               mins == SubSeq(out, 1, n - 3)
               secs == SubSeq(out, n - 1, n)
           IN  /\ n >= 4
               /\ out[n - 2] = ":"
               /\ IsDigits(mins) /\ IsDigits(secs)
               /\ Decimal(mins) = probe.in \div 60
               /\ Decimal(secs) = probe.in % 60
               /\ Len(mins) > 1 => mins[1] # "0"
               /\ probe.in = 75 => out = <<"1", ":", "1", "5">>
               /\ probe.in = 59 => out = <<"0", ":", "5", "9">>
               /\ probe.in = 0 => out = <<"0", ":", "0", "0">>
               /\ probe.in = 600 => out = <<"1", "0", ":", "0", "0">>

\* ten minutes have been formatted
C19_Witness ==
    /\ probe.fn = "formatTime" /\ probe.done
    /\ probe.in = 600
    /\ probe.out = <<"1", "0", ":", "0", "0">>

\* ---- traces (SpecSession) ----

\* the log nodes that carry an agent-flow chip
Traces(lg) ==
    {i \in DOMAIN lg : /\ lg[i].kind = "bot"
                       /\ lg[i].chips # None
                       /\ lg[i].chips[1].flow # None}

\* C21: a trace is collapsed when it is created; a toggle flips the
\* collapsed flag of that trace and nothing else: the log, the other traces,
\* the ledger and all audio state stay as they are, so a second toggle
\* brings a trace back to collapsed.
C21_ToggleFlipsOneTrace ==
    [][/\ \A i \in Traces(log') \ Traces(log) : i \notin expanded'
       /\ last'.op = "trace"
              => /\ last'.node \in Traces(log)
                 /\ (last'.node \in expanded') <=> (last'.node \notin expanded)
                 /\ \A j \in Traces(log) \ {last'.node} :
                        (j \in expanded') <=> (j \in expanded)
                 /\ UNCHANGED <<log, ledger, audio, currentAudio, delivered,
                                outbox>>]_vars

\* a trace has been opened and closed again while another trace stays open
C21_Witness ==
    /\ last.op = "trace"
    /\ last.node \notin expanded
    /\ \E j \in Traces(log) : j # last.node /\ j \in expanded
    /\ ledger.totalCost # None

\* ---- failures (SpecFrames, Spec) ----

\* C22: a frame that cannot be parsed makes the dispatcher fail with a
\* ProtocolError and drop the frame, with no uncaught fault: the log, the
\* ledger and the audio state are unchanged and later frames are handled.
C22_ParseFailureIsProtocolError ==
    last.op = "unparsable"
        => /\ last.error = "ProtocolError"
           /\ ~last.fault

\* C23: a handler of an event of widget W that fails (a click on its play
\* button, its progress track or its download button) harms W only: the
\* log, the ledger and every other widget are as they were before the event.
C23_FailureStaysInItsWidget ==
    [][\A w \in Widgets :
          (last'.fault /\ last'.w = w
           /\ last'.op \in {"toggle", "seek", "download"})
              => /\ log' = log
                 /\ ledger' = ledger
                 /\ \A v \in Widgets \ {w} : audio'[v] = audio[v]]_vars

\* ---- chips (SpecFrames) ----

\* the request cost of frame f, when it carries one
RequestCostOf(f) ==
    IF f.cost_info # None THEN f.cost_info[1].request_cost ELSE None

\* the chips of node n, one for one
CostChipOf(n) == IF n.chips = None THEN None ELSE n.chips[1].cost
FlowChipOf(n) == IF n.chips = None THEN None ELSE n.chips[1].flow

\* C24: a bot message has a cost chip whenever the cost_info of its frame
\* carries a number as request_cost, zero included, and an agent-flow chip
\* whenever agent_flow is there; it has no chip when neither is there; a
\* user message has no chips.
C24_ChipsFollowFields ==
    [][/\ (last'.op = "frame" /\ ~IsErrorFrame(last'.frame)
           /\ Truthy(last'.frame.message))
              => /\ (CostChipOf(Appended[1]) # None)
                        <=> (RequestCostOf(last'.frame) # None)
                 /\ (FlowChipOf(Appended[1]) # None)
                        <=> (last'.frame.agent_flow # None)
       /\ last'.op = "send"
              => \A i \in DOMAIN Appended : Appended[i].chips = None]_vars

\* ---- the file name of a download (SpecUtils) ----

NamePrefix == <<"a", "u", "d", "i", "o", "_">>
NameSuffix == <<".", "m", "p", "3">>

\* the digits of text cs from position a to position b stand for number n
Reads(cs, a, b, n) ==
    /\ Len(cs) >= b
    /\ IsDigits(SubSeq(cs, a, b))
    /\ Decimal(SubSeq(cs, a, b)) = n

\* C25 as stated: the file name is "audio_", then exactly the 14 digits
\* YYYYMMDDHHMMSS of the instant, then ".mp3", and nothing else.
C25_NameIsFourteenDigits ==
    (probe.fn = "downloadName" /\ probe.done)
        => /\ Len(probe.out) = 24
           /\ SubSeq(probe.out, 1, 6) = NamePrefix
           /\ Reads(probe.out, 7, 10, probe.in.year)
           /\ Reads(probe.out, 11, 12, probe.in.month)
           /\ Reads(probe.out, 13, 14, probe.in.day)
           /\ Reads(probe.out, 15, 16, probe.in.hours)
           /\ Reads(probe.out, 17, 18, probe.in.minutes)
           /\ Reads(probe.out, 19, 20, probe.in.seconds)
           /\ SubSeq(probe.out, 21, 24) = NameSuffix

\* C25 as amended: the file name is "audio_", then the 8 digits YYYYMMDD,
\* the letter "T" and the 6 digits HHMMSS of the instant of the click in
\* UTC, then ".mp3": 15 characters stand between prefix and extension.
C25_NameIsDateTTime ==
    (probe.fn = "downloadName" /\ probe.done)
        => /\ Len(probe.out) = 25
           /\ SubSeq(probe.out, 1, 6) = NamePrefix
           /\ Reads(probe.out, 7, 10, probe.in.year)
           /\ Reads(probe.out, 11, 12, probe.in.month)
           /\ Reads(probe.out, 13, 14, probe.in.day)
           /\ probe.out[15] = "T"
           /\ Reads(probe.out, 16, 17, probe.in.hours)
           /\ Reads(probe.out, 18, 19, probe.in.minutes)
           /\ Reads(probe.out, 20, 21, probe.in.seconds)
           /\ SubSeq(probe.out, 22, 25) = NameSuffix

\* a download on 5 January 2024 at 00:03:07.999 has been named
C25_Witness ==
    /\ probe.fn = "downloadName" /\ probe.done
    /\ probe.in = [year |-> 2024, month |-> 1, day |-> 5, hours |-> 0,
                   minutes |-> 3, seconds |-> 7, ms |-> 999]
    /\ probe.out = NamePrefix
                   \o <<"2", "0", "2", "4", "0", "1", "0", "5", "T",
                        "0", "0", "0", "3", "0", "7">>
                   \o NameSuffix

\* ---- research results (SpecFrames) ----

\* C26: every research node of the log has the body sanitize(convert(text)),
\* the conversion applied first and the sanitizer applied to its result, and
\* a frame that is not an error and carries a research text appends exactly
\* one such node, made from the text of that frame.
C26_ResearchBodySanitizedMarkdown ==
    [][/\ \A i \in DOMAIN Appended :
              Appended[i].kind = "research"
                  => /\ last'.op = "frame"
                     /\ Truthy(last'.frame.research_result)
                     /\ Appended[i].body[1] = "sanitize"
                     /\ Appended[i].body[2][1] = "parse"
                     /\ Appended[i].body[2][2] = last'.frame.research_result[1]
       /\ (/\ last'.op = "frame" /\ ~IsErrorFrame(last'.frame)
           /\ Truthy(last'.frame.research_result))
              => Cardinality({i \in DOMAIN Appended :
                                  Appended[i].kind = "research"}) = 1]_vars

\* two research nodes made from two different texts, the later one with
\* other nodes of its frame before it
C26_Witness ==
    \E i, j \in DOMAIN log :
        /\ i + 1 < j
        /\ log[i].kind = "research" /\ log[j].kind = "research"
        /\ log[i].body = <<"sanitize", <<"parse", MsgHi>> >>
        /\ log[j].body = <<"sanitize", <<"parse", Payload>> >>

\* ---- the reference to the active widget (SpecClips) ----

\* the step just taken was a click on the play button of a widget that was
\* not Playing, and the handler ran to its end
PlayTransition == last'.op = "toggle" /\ ~last'.fault /\ last'.from # "Playing"

\* C27: currentAudio changes only when a widget starts playing, and then it
\* refers to that widget, and when a clip ends naturally, and then it is
\* null; a pause in place, a seek, a tick, a download, a trace toggle, the
\* arrival of a frame and a user send leave it as it was.
C27_CurrentAudioChangesOnPlayAndEnd ==
    [][/\ currentAudio' # currentAudio
              => \/ PlayTransition /\ currentAudio' = last'.w
                 \/ last'.op = "ended" /\ currentAudio' = Null
       /\ PlayTransition => (currentAudio' = last'.w /\ ~audio'[last'.w].paused)
       /\ last'.op = "ended" => currentAudio' = Null
       /\ (last'.op = "toggle" /\ last'.from = "Playing")
              => (currentAudio' = currentAudio /\ audio'[last'.w].paused)
       /\ last'.op \in {"seek", "tick", "download", "trace", "frame", "send",
                        "metadata"}
              => currentAudio' = currentAudio]_vars

\* a clip that was played, sought and ticked has just been paused in place
\* with its trace open and a user message sent: the reference still points
\* to it
C27_Witness ==
    /\ last.op = "toggle" /\ last.from = "Playing" /\ ~last.fault
    /\ currentAudio = last.w
    /\ audio[last.w].paused /\ audio[last.w].currentTime > 0
    /\ expanded # {}
    /\ outbox # <<>>

\* ---- seeking (Spec) ----

\* C28: a click at fraction pos / Dur of the progress track of a widget whose
\* duration is known sets the position of that widget to that fraction of
\* its duration, which lies between 0 and the duration, without an error,
\* and changes nothing else: not the play state or the button of the
\* widget, not another widget, not currentAudio, the log or the ledger.
C28_SeekSetsPositionOnly ==
    [][\A w \in Widgets :
           (Did("seek", w) /\ audio[w].duration # NaN)
               => /\ ~last'.fault
                  /\ audio'[w].currentTime * Dur = last'.pos * audio[w].duration
                  /\ audio'[w].currentTime \in 0..audio[w].duration
                  /\ audio'[w] = [audio[w] EXCEPT
                                      !.currentTime = audio'[w].currentTime]
                  /\ \A v \in Widgets \ {w} : audio'[v] = audio[v]
                  /\ DOMAIN audio' = DOMAIN audio
                  /\ UNCHANGED <<currentAudio, log, ledger, delivered, outbox,
                                 expanded>>]_vars

\* a playing clip that had advanced to the middle has been sought back to
\* the start while another clip is loaded
C28_Witness ==
    /\ last.op = "seek" /\ ~last.fault /\ last.from = "Playing"
    /\ last.pos = 0
    /\ audio[last.w].currentTime = 0 /\ ~audio[last.w].paused
    /\ \E i \in DOMAIN last.steps : last.steps[i] = <<"seek", last.w>>
    /\ \E v \in Widgets \ {last.w} : audio[v].duration # NaN

\* ---- the body of a trace (SpecUtils) ----

\* the elements of an array that may be missing
ListOf(o) == IF o = None THEN <<>> ELSE o[1]

\* C29: the body of a trace holds one block for each tool call, in the
\* order of the array, with the call's name and parameters and with a result
\* line only if the call has a result (and always if the result is a text
\* that is not empty), then one block for each internal message, in order;
\* the printed agent_flow is the body exactly when both arrays are missing
\* or empty, and then it is all of the body.
C29_TraceBodyBlocksInOrder ==
    (probe.fn = "flowContent" /\ probe.done)
        => LET calls    == ListOf(probe.in.tool_calls)
               messages == ListOf(probe.in.internal_messages)
               body     == probe.out
           IN  IF calls = <<>> /\ messages = <<>>
               THEN body = <<[kind |-> "dump", text |-> <<"stringify", probe.in>>]>>
               ELSE /\ Len(body) = Len(calls) + Len(messages)
                    /\ \A i \in DOMAIN calls :
                           /\ body[i].kind = "tool-call"
                           /\ body[i].name = calls[i].name
                           /\ body[i].parameters = <<"stringify", calls[i].parameters>>
                           /\ body[i].result # None
                                  => body[i].result = calls[i].result
                           /\ Truthy(calls[i].result)
                                  => body[i].result = calls[i].result
                    /\ \A j \in DOMAIN messages :
                           /\ body[Len(calls) + j].kind = "internal-message"
                           /\ body[Len(calls) + j].text = messages[j]

\* a call with a result, a call without one and two different messages have
\* been formatted
C29_Witness ==
    /\ probe.fn = "flowContent" /\ probe.done
    /\ probe.in.tool_calls = Some(<<CallSearch, CallSpeak>>)
    /\ probe.in.internal_messages = Some(<<Payload, MsgHi>>)
    /\ Len(probe.out) = 4
    /\ probe.out[1].result = Some(MsgHi) /\ probe.out[2].result = None
    /\ probe.out[3].text = Payload /\ probe.out[4].text = MsgHi

\* ---- the slices of a decoded clip (SpecUtils) ----

\* C30: a payload that decodes to n characters is cut into exactly
\* ceil(n / 512) slices, which start at the offsets 0, 512, 1024, ...: every
\* slice but the last holds 512 characters, the last holds between 1 and
\* 512, an empty payload gives no slice, and the slices one after the other
\* are the decoded payload.
C30_SlicesCoverPayload ==
    (probe.fn = "base64ToBlob" /\ probe.done)
        => LET byteCharacters == Atob(probe.in)
               n      == Len(byteCharacters)
               slices == probe.byteArrays
               count  == Len(slices)
           IN  /\ (count - 1) * AudioChunkSize < n
               /\ n <= count * AudioChunkSize
               /\ n = 0 => count = 0
               /\ \A k \in 1..(count - 1) : Len(slices[k]) = AudioChunkSize
               /\ count > 0 => Len(slices[count]) \in 1..AudioChunkSize
               /\ \A k \in 1..count : \A i \in 1..Len(slices[k]) :
                      slices[k][i] = byteCharacters[(k - 1) * AudioChunkSize + i]
               /\ BlobBytes(slices) = byteCharacters
               /\ probe.out.parts = count

\* a clip of exactly two chunks has been cut into two full slices
C30_Witness ==
    /\ probe.fn = "base64ToBlob" /\ probe.done
    /\ Len(probe.of) = 2 * AudioChunkSize
    /\ Len(probe.byteArrays) = 2
    /\ Len(probe.byteArrays[1]) = AudioChunkSize
    /\ Len(probe.byteArrays[2]) = AudioChunkSize
    /\ probe.byteArrays[2][1] = probe.of[AudioChunkSize + 1]

\* ---- the steps of a download (SpecDownloads) ----

\* what the steps of a handler did, without the widget they did it to
StepNames(steps) == [i \in DOMAIN steps |-> steps[i][1]]

\* C31: a download decodes, creates the object URL, triggers the save and
\* releases the URL, in this order and each once; a URL that was created has
\* been released when the handler ends (a payload that does not decode ends
\* the handler at the first step, before any URL exists); and no widget's
\* play state or position and not currentAudio is changed.
C31_DownloadStepsInOrder ==
    [][last'.op = "download"
          => LET names == StepNames(last'.steps)
                 At(n) == {i \in DOMAIN names : names[i] = n}
             IN  /\ IF last'.fault
                    THEN names = <<"throw">> /\ last'.saved = None
                    ELSE /\ SelectSeq(names, LAMBDA n :
                                 n \in {"base64ToBlob", "createObjectURL",
                                        "click", "revokeObjectURL"})
                            = <<"base64ToBlob", "createObjectURL", "click",
                                "revokeObjectURL">>
                         /\ last'.saved # None
                 /\ \A i \in At("createObjectURL") :
                        \E j \in At("revokeObjectURL") : i < j
                 /\ Cardinality(At("createObjectURL"))
                        = Cardinality(At("revokeObjectURL"))
                 /\ \A i \in DOMAIN last'.steps :
                        last'.steps[i][1] # "throw" => last'.steps[i][2] = last'.w
                 /\ audio' = audio
                 /\ currentAudio' = currentAudio]_vars

\* the clip of a widget that stands at its end has been saved while the
\* other widget plays
C31_Witness ==
    /\ last.op = "download" /\ ~last.fault /\ last.from = "Ended"
    /\ last.saved # None
    /\ \E i, j \in DOMAIN last.steps :
           /\ i < j
           /\ last.steps[i] = <<"createObjectURL", last.w>>
           /\ last.steps[j] = <<"revokeObjectURL", last.w>>
    /\ audio[last.w].currentTime = Dur /\ audio[last.w].paused
    /\ \E v \in Widgets \ {last.w} : currentAudio = v /\ ~audio[v].paused

\* ---- what the user sends (SpecSession) ----

\* the bodies of the "You" nodes of the log, oldest first
YouBodies ==
    LET you == SelectSeq(log, LAMBDA n : n.kind = "user")
    IN  [i \in DOMAIN you |-> you[i].body]

\* C32: a send of a text that is not empty appends one "You" node with that
\* text, hands exactly that text to the transport and clears the input; a
\* send of the empty text appends and sends nothing; so the bodies of the
\* "You" nodes are the texts handed to the transport, in the same order.
C32_YouNodesAreThePayloads ==
    [][/\ (last'.op = "send" /\ last'.text # <<>>)
              => /\ Len(Appended) = 1
                 /\ Appended[1].kind = "user" /\ Appended[1].header = "You"
                 /\ Appended[1].body = last'.text
                 /\ outbox' = Append(outbox, last'.text)
                 /\ last'.input = <<>>
                 /\ ~last'.fault
       /\ (last'.op = "send" /\ last'.text = <<>>)
              => (log' = log /\ outbox' = outbox)
       /\ YouBodies' = outbox']_vars

\* ---- the reference while a clip plays (Spec) ----

C34_ButtonShowsPauseIffPlaying ==
    \A w \in Widgets : (audio[w].button = "pause") <=> Playing(w)

\* ---- the position of a paused widget (Spec) ----

\* C35: a widget that is Paused keeps its position in every step that is
\* not a toggle or a seek on that widget itself; in particular a toggle on
\* a different widget does not reset the position of a widget that is not
\* Playing at the time.
C35_PausedKeepsPosition ==
    [][\A v \in Widgets :
           (/\ StateOf(audio[v]) = "Paused"
            /\ ~(last'.w = v /\ last'.op \in {"toggle", "seek"}))
               => audio'[v].currentTime = audio[v].currentTime]_vars

====
